---- MODULE Spec2Model ----
(***************************************************************************)
(* Model of github.com/electricbubble/lru: the LRU engine (unsafeCache,    *)
(* wrapped by Cache), the two-queue cache (TwoQueueCache) and the adaptive *)
(* replacement cache (ARCCache).                                           *)
(*                                                                         *)
(* Every method is an operator from the receiver's state (and arguments)   *)
(* to a record holding the receiver's new state `c`, the method's results  *)
(* and `ev`, the eviction callbacks the call made, in the order made.      *)
(* A method that only reads is an operator giving its result.              *)
(* The actions apply one method of the constructed cache per step.         *)
(***************************************************************************)
EXTENDS Integers, Sequences, FiniteSets, Bags

(* ---- bounds of the model ---- *)
NumKeys == 3
MaxSize == 2
\* the number of goroutines that call the cache, each once
NumProcs == 3
\* keys and capacity of the ARCCache of SpecARC
NumARCKeys == 6
ARCSize == 3

(* ---- program constants ---- *)
defaultSize == 128
\* the ratios of 2q.go are float64; the model writes them in hundredths
default2QRecentRatio == 25
default2QGhostEntries == 50
\* the zero value of V ("var v V")
Zero == 0

KeySet == 1..NumKeys
\* V is opaque: the zero value and one other value
ValSet == {Zero, 1}
\* sizes handed to the constructors (0 stands for any maxEntries <= 0)
SizeArgs == 0..MaxSize
\* sizes handed to Resize
ResizeArgs == (-1)..MaxSize
\* ratios handed to New2QParams, in hundredths; 150 is out of range
RatioArgs == {0, 50, 100, 150}
\* the options of arc.go:254-266; "none" is no option at all
OptionArgs == {"none", "WithOnEvicted", "WithOnEvictedAsync"}

(***************************************************************************)
(* list.List (package lru/list): a doubly linked list. A list is the       *)
(* sequence of its elements' values, front first. An element is named by   *)
(* the key of the entry it holds: the cache keeps the keys of a list       *)
(* distinct, and bucket[key] is the element holding key.                   *)
(***************************************************************************)
list_New == << >>

list_Len(l) == Len(l)

list_PushFront(l, ent) == <<ent>> \o l

list_Remove(l, key) == SelectSeq(l, LAMBDA e : e.key # key)

list_Elem(l, key) == l[CHOOSE i \in 1..Len(l) : l[i].key = key]

list_MoveToFront(l, key) == <<list_Elem(l, key)>> \o list_Remove(l, key)

\* Back() is nil on an empty list; callers test list_Len first
list_Back(l) == l[Len(l)]

Reverse(s) == [i \in 1..Len(s) |-> s[Len(s) + 1 - i]]

(***************************************************************************)
(* unsafeCache                                                             *)
(***************************************************************************)
\* onEvicted is TRUE when a callback is set; async as in the struct
WithOption(c, opt) ==
    CASE opt = "WithOnEvicted"      -> [c EXCEPT !.onEvicted = TRUE, !.async = FALSE]
      [] opt = "WithOnEvictedAsync" -> [c EXCEPT !.onEvicted = TRUE, !.async = TRUE]
      [] OTHER                      -> c

NewUnsafeLru(maxEntries, opt) ==
    WithOption([maxEntries |-> IF maxEntries <= 0 THEN defaultSize ELSE maxEntries,
                onEvicted  |-> FALSE,
                async      |-> FALSE,
                entries    |-> list_New,
                bucket     |-> {}], opt)

\* evicting that always starts a goroutine
evicting_go(c, key, value) ==
    [key |-> key, value |-> value, go |-> TRUE]

\* evicting that always calls inline
evicting_inline(c, key, value) ==
    [key |-> key, value |-> value, go |-> FALSE]

\* one invocation of the callback: inline, or as a goroutine ("go")
evicting(c, key, value) ==
    [key |-> key, value |-> value, go |-> c.async]

\* removeElement without the callback
removeElement_silent(c, key) ==
    LET ent == list_Elem(c.entries, key)
    IN  [c  |-> [c EXCEPT !.entries = list_Remove(c.entries, key),
                          !.bucket  = c.bucket \ {ent.key}],
         ev |-> << >>]

removeElement(c, key) ==
    LET ent == list_Elem(c.entries, key)
        c1  == [c EXCEPT !.entries = list_Remove(c.entries, key),
                         !.bucket  = c.bucket \ {ent.key}]
    IN  [c  |-> c1,
         ev |-> IF ~c.onEvicted THEN << >>
                ELSE <<evicting(c, ent.key, ent.value)>>]

\* removeOldest that makes no callback
removeOldest_silent(c) ==
    IF list_Len(c.entries) = 0
    THEN [c |-> c, ev |-> << >>]
    ELSE removeElement_silent(c, list_Back(c.entries).key)

removeOldest(c) ==
    IF list_Len(c.entries) > 0
    THEN removeElement(c, list_Back(c.entries).key)
    ELSE [c |-> c, ev |-> << >>]

\* unsafeCache_Add leaving the old value when the key is already held
unsafeCache_Add_staleValue(c, key, value) ==
    IF key \in c.bucket
    THEN [c |-> [c EXCEPT !.entries = list_MoveToFront(c.entries, key)],
          evicted |-> FALSE, ev |-> << >>]
    ELSE LET c1 == [c EXCEPT
                      !.entries = list_PushFront(c.entries, [key |-> key, value |-> value]),
                      !.bucket  = c.bucket \cup {key}]
             evicted == list_Len(c1.entries) > c1.maxEntries
             r == IF evicted THEN removeOldest(c1) ELSE [c |-> c1, ev |-> << >>]
         IN  [c |-> r.c, evicted |-> evicted, ev |-> r.ev]

\* unsafeCache_Add taking maxEntries = 0 as "no limit" (the struct's comment)
unsafeCache_Add_zeroNoLimit(c, key, value) ==
    IF key \in c.bucket
    THEN LET moved == list_MoveToFront(c.entries, key)
         IN  [c |-> [c EXCEPT !.entries =
                        [moved EXCEPT ![1] = [key |-> key, value |-> value]]],
              evicted |-> FALSE, ev |-> << >>]
    ELSE LET c1 == [c EXCEPT
                      !.entries = list_PushFront(c.entries, [key |-> key, value |-> value]),
                      !.bucket  = c.bucket \cup {key}]
             evicted == c1.maxEntries # 0 /\ list_Len(c1.entries) > c1.maxEntries
             r == IF evicted THEN removeOldest(c1) ELSE [c |-> c1, ev |-> << >>]
         IN  [c |-> r.c, evicted |-> evicted, ev |-> r.ev]

unsafeCache_Add(c, key, value) ==
    IF key \in c.bucket
    THEN LET moved == list_MoveToFront(c.entries, key)
         IN  [c |-> [c EXCEPT !.entries =
                        [moved EXCEPT ![1] = [key |-> key, value |-> value]]],
              evicted |-> FALSE, ev |-> << >>]
    ELSE LET c1 == [c EXCEPT
                      !.entries = list_PushFront(c.entries, [key |-> key, value |-> value]),
                      !.bucket  = c.bucket \cup {key}]
             evicted == list_Len(c1.entries) > c1.maxEntries
             r == IF evicted THEN removeOldest(c1) ELSE [c |-> c1, ev |-> << >>]
         IN  [c |-> r.c, evicted |-> evicted, ev |-> r.ev]

\* unsafeCache_Get without its MoveToFront (Get as Peek)
unsafeCache_Get_noMove(c, key) ==
    IF key \notin c.bucket
    THEN [c |-> c, value |-> Zero, ok |-> FALSE, ev |-> << >>]
    ELSE [c |-> c, value |-> list_Elem(c.entries, key).value, ok |-> TRUE, ev |-> << >>]

unsafeCache_Get(c, key) ==
    IF key \notin c.bucket
    THEN [c |-> c, value |-> Zero, ok |-> FALSE, ev |-> << >>]
    ELSE [c |-> [c EXCEPT !.entries = list_MoveToFront(c.entries, key)],
          value |-> list_Elem(c.entries, key).value, ok |-> TRUE, ev |-> << >>]

unsafeCache_Contains(c, key) == key \in c.bucket

unsafeCache_Peek(c, key) ==
    IF key \notin c.bucket
    THEN [c |-> c, value |-> Zero, ok |-> FALSE, ev |-> << >>]
    ELSE [c |-> c, value |-> list_Elem(c.entries, key).value, ok |-> TRUE, ev |-> << >>]

unsafeCache_Remove(c, key) ==
    IF key \notin c.bucket
    THEN [c |-> c, ok |-> FALSE, ev |-> << >>]
    ELSE LET r == removeElement(c, key)
         IN  [c |-> r.c, ok |-> TRUE, ev |-> r.ev]

unsafeCache_RemoveOldest(c) ==
    IF list_Len(c.entries) = 0
    THEN [c |-> c, key |-> Zero, value |-> Zero, ok |-> FALSE, ev |-> << >>]
    ELSE LET ent == list_Back(c.entries)
             r   == removeElement(c, ent.key)
         IN  [c |-> r.c, key |-> ent.key, value |-> ent.value, ok |-> TRUE, ev |-> r.ev]

unsafeCache_GetOldest(c) ==
    IF list_Len(c.entries) = 0
    THEN [key |-> Zero, value |-> Zero, ok |-> FALSE]
    ELSE LET ent == list_Back(c.entries)
         IN  [key |-> ent.key, value |-> ent.value, ok |-> TRUE]

\* from Back() along Prev(): oldest first
unsafeCache_Keys(c) == Reverse([i \in 1..Len(c.entries) |-> c.entries[i].key])

unsafeCache_Len(c) == list_Len(c.entries)

\* the loop of Resize: removeOldest, n times
RECURSIVE removeOldestTimes(_, _)
removeOldestTimes(c, n) ==
    IF n <= 0 THEN [c |-> c, ev |-> << >>]
    ELSE LET r1 == removeOldest(c)
             r2 == removeOldestTimes(r1.c, n - 1)
         IN  [c |-> r2.c, ev |-> r1.ev \o r2.ev]

\* Resize that evicts but leaves maxEntries as it was
unsafeCache_Resize_keepCapacity(c, size) ==
    LET d    == unsafeCache_Len(c) - size
        diff == IF d < 0 THEN 0 ELSE d
        r    == removeOldestTimes(c, diff)
    IN  [c |-> r.c, evicted |-> diff, ev |-> r.ev]

unsafeCache_Resize(c, size) ==
    LET d    == unsafeCache_Len(c) - size
        diff == IF d < 0 THEN 0 ELSE d
        r    == removeOldestTimes(c, diff)
    IN  [c |-> [r.c EXCEPT !.maxEntries = size], evicted |-> diff, ev |-> r.ev]

\* the orders in which "range c.bucket" may visit the keys
RangeOrders(S) ==
    {s \in [1..Cardinality(S) -> S] : \A i, j \in DOMAIN s : i # j => s[i] # s[j]}

\* Clear, visiting the bucket in the order `order`
unsafeCache_Clear(c, order) ==
    [c  |-> [c EXCEPT !.bucket = {}, !.entries = list_New],
     ev |-> IF ~c.onEvicted THEN << >>
            ELSE [i \in 1..Len(order) |->
                    evicting(c, order[i], list_Elem(c.entries, order[i]).value)]]

(***************************************************************************)
(* TwoQueueCache                                                           *)
(***************************************************************************)
New2QParams(maxEntries, recentRatio, ghostRatio, opt) ==
    LET m  == IF maxEntries <= 0 THEN defaultSize ELSE maxEntries
        rr == IF recentRatio < 0 \/ recentRatio > 100
              THEN default2QRecentRatio ELSE recentRatio
        gr == IF ghostRatio < 0 \/ ghostRatio > 100
              THEN default2QGhostEntries ELSE ghostRatio
        recentEntries == (m * rr) \div 100
        evictEntries  == (m * gr) \div 100
    IN  [kind          |-> "2Q",
         maxEntries    |-> m,
         recentEntries |-> recentEntries,
         recent        |-> NewUnsafeLru(m, opt),
         frequent      |-> NewUnsafeLru(m, opt),
         recentEvict   |-> NewUnsafeLru(evictEntries, opt)]

New2Q(maxEntries, opt) ==
    New2QParams(maxEntries, default2QRecentRatio, default2QGhostEntries, opt)

TwoQueueCache_ensureSpace(c, recentEvict) ==
    LET recentLen == unsafeCache_Len(c.recent)
        freqLen   == unsafeCache_Len(c.frequent)
    IN  IF recentLen + freqLen < c.maxEntries
        THEN [c |-> c, ev |-> << >>]
        ELSE IF recentLen > 0 /\ (recentLen > c.recentEntries
                                  \/ (recentLen = c.recentEntries /\ ~recentEvict))
        THEN LET r == unsafeCache_RemoveOldest(c.recent)
                 a == unsafeCache_Add(c.recentEvict, r.key, Zero)
             IN  [c  |-> [c EXCEPT !.recent = r.c, !.recentEvict = a.c],
                  ev |-> r.ev \o a.ev]
        ELSE LET r == unsafeCache_RemoveOldest(c.frequent)
             IN  [c |-> [c EXCEPT !.frequent = r.c], ev |-> r.ev]

TwoQueueCache_Add(c, key, value) ==
    IF unsafeCache_Contains(c.frequent, key)
    THEN LET a == unsafeCache_Add(c.frequent, key, value)
         IN  [c |-> [c EXCEPT !.frequent = a.c], ev |-> a.ev]
    ELSE IF unsafeCache_Contains(c.recent, key)
    THEN LET r == unsafeCache_Remove(c.recent, key)
             a == unsafeCache_Add(c.frequent, key, value)
         IN  [c |-> [c EXCEPT !.recent = r.c, !.frequent = a.c], ev |-> r.ev \o a.ev]
    ELSE IF unsafeCache_Contains(c.recentEvict, key)
    THEN LET e == TwoQueueCache_ensureSpace(c, TRUE)
             r == unsafeCache_Remove(e.c.recentEvict, key)
             a == unsafeCache_Add(e.c.frequent, key, value)
         IN  [c  |-> [e.c EXCEPT !.recentEvict = r.c, !.frequent = a.c],
              ev |-> e.ev \o r.ev \o a.ev]
    ELSE LET e == TwoQueueCache_ensureSpace(c, FALSE)
             a == unsafeCache_Add(e.c.recent, key, value)
         IN  [c |-> [e.c EXCEPT !.recent = a.c], ev |-> e.ev \o a.ev]

TwoQueueCache_Get(c, key) ==
    LET g == unsafeCache_Get(c.frequent, key)
        p == unsafeCache_Peek(c.recent, key)
    IN  IF g.ok
        THEN [c |-> [c EXCEPT !.frequent = g.c], value |-> g.value, ok |-> TRUE,
              ev |-> << >>]
        ELSE IF p.ok
        THEN LET r == unsafeCache_Remove(c.recent, key)
                 a == unsafeCache_Add(c.frequent, key, p.value)
             IN  [c |-> [c EXCEPT !.recent = r.c, !.frequent = a.c],
                  value |-> p.value, ok |-> TRUE, ev |-> r.ev \o a.ev]
        ELSE [c |-> c, value |-> Zero, ok |-> FALSE, ev |-> << >>]

TwoQueueCache_Contains(c, key) ==
    unsafeCache_Contains(c.frequent, key) \/ unsafeCache_Contains(c.recent, key)

TwoQueueCache_Peek(c, key) ==
    LET f == unsafeCache_Peek(c.frequent, key)
        r == unsafeCache_Peek(c.recent, key)
    IN  IF f.ok
        THEN [c |-> [c EXCEPT !.frequent = f.c], value |-> f.value, ok |-> TRUE,
              ev |-> << >>]
        ELSE [c |-> [c EXCEPT !.frequent = f.c, !.recent = r.c],
              value |-> r.value, ok |-> r.ok, ev |-> << >>]

\* the named result ok is never assigned: every path returns its zero value
TwoQueueCache_Remove(c, key) ==
    LET f == unsafeCache_Remove(c.frequent, key)
        r == unsafeCache_Remove(c.recent, key)
        g == unsafeCache_Remove(c.recentEvict, key)
    IN  IF f.ok THEN [c |-> [c EXCEPT !.frequent = f.c], ok |-> FALSE, ev |-> f.ev]
        ELSE IF r.ok THEN [c |-> [c EXCEPT !.recent = r.c], ok |-> FALSE, ev |-> r.ev]
        ELSE IF g.ok THEN [c |-> [c EXCEPT !.recentEvict = g.c], ok |-> FALSE, ev |-> g.ev]
        ELSE [c |-> c, ok |-> FALSE, ev |-> << >>]

TwoQueueCache_Keys(c) == unsafeCache_Keys(c.frequent) \o unsafeCache_Keys(c.recent)

TwoQueueCache_Len(c) == unsafeCache_Len(c.recent) + unsafeCache_Len(c.frequent)

\* orders: the visiting orders of the three buckets, in the order cleared
TwoQueueCache_Clear(c, orders) ==
    LET r == unsafeCache_Clear(c.recent, orders[1])
        f == unsafeCache_Clear(c.frequent, orders[2])
        g == unsafeCache_Clear(c.recentEvict, orders[3])
    IN  [c  |-> [c EXCEPT !.recent = r.c, !.frequent = f.c, !.recentEvict = g.c],
         ev |-> r.ev \o f.ev \o g.ev]

(***************************************************************************)
(* ARCCache                                                                *)
(***************************************************************************)
NewARC(maxEntries, opt) ==
    LET m == IF maxEntries <= 0 THEN defaultSize ELSE maxEntries
    IN  [kind       |-> "ARC",
         maxEntries |-> m,
         p          |-> 0,
         t1         |-> NewUnsafeLru(m, opt),
         b1         |-> NewUnsafeLru(m, opt),
         t2         |-> NewUnsafeLru(m, opt),
         b2         |-> NewUnsafeLru(m, opt)]

\* ARCCache_replace reading the victim (GetOldest) without removing it
ARCCache_replace_keepVictim(c, b2ContainsKey) ==
    LET t1Len == unsafeCache_Len(c.t1)
    IN  IF t1Len > 0 /\ (t1Len > c.p \/ (t1Len = c.p /\ b2ContainsKey))
        THEN LET r == unsafeCache_GetOldest(c.t1)
                 a == unsafeCache_Add(c.b1, r.key, Zero)
             IN  IF r.ok
                 THEN [c |-> [c EXCEPT !.b1 = a.c], ev |-> a.ev]
                 ELSE [c |-> c, ev |-> << >>]
        ELSE LET r == unsafeCache_GetOldest(c.t2)
                 a == unsafeCache_Add(c.b2, r.key, Zero)
             IN  IF r.ok
                 THEN [c |-> [c EXCEPT !.b2 = a.c], ev |-> a.ev]
                 ELSE [c |-> c, ev |-> << >>]

ARCCache_replace(c, b2ContainsKey) ==
    LET t1Len == unsafeCache_Len(c.t1)
    IN  IF t1Len > 0 /\ (t1Len > c.p \/ (t1Len = c.p /\ b2ContainsKey))
        THEN LET r == unsafeCache_RemoveOldest(c.t1)
                 a == unsafeCache_Add(c.b1, r.key, Zero)
             IN  IF r.ok
                 THEN [c |-> [c EXCEPT !.t1 = r.c, !.b1 = a.c], ev |-> r.ev \o a.ev]
                 ELSE [c |-> c, ev |-> << >>]
        ELSE LET r == unsafeCache_RemoveOldest(c.t2)
                 a == unsafeCache_Add(c.b2, r.key, Zero)
             IN  IF r.ok
                 THEN [c |-> [c EXCEPT !.t2 = r.c, !.b2 = a.c], ev |-> r.ev \o a.ev]
                 ELSE [c |-> c, ev |-> << >>]

\* "if t1.Len()+t2.Len() >= maxEntries { replace(b2ContainsKey) }"
ARCCache_makeRoom(c, b2ContainsKey) ==
    IF unsafeCache_Len(c.t1) + unsafeCache_Len(c.t2) >= c.maxEntries
    THEN ARCCache_replace(c, b2ContainsKey)
    ELSE [c |-> c, ev |-> << >>]

\* a hit in b1 that leaves p as it is
ARCCache_growP_none(c) == c.p

\* a hit in b1 that raises p by 1 whatever the ghost lists hold
ARCCache_growP_byOne(c) ==
    IF c.p + 1 >= c.maxEntries THEN c.maxEntries ELSE c.p + 1

\* the new p on a hit in b1
ARCCache_growP(c) ==
    LET b1Len == unsafeCache_Len(c.b1)
        b2Len == unsafeCache_Len(c.b2)
        delta == IF b2Len > b1Len THEN b2Len \div b1Len ELSE 1
    IN  IF c.p + delta >= c.maxEntries THEN c.maxEntries ELSE c.p + delta

\* the new p on a hit in b2, without the clamp at 0
ARCCache_shrinkP_unclamped(c) ==
    LET b1Len == unsafeCache_Len(c.b1)
        b2Len == unsafeCache_Len(c.b2)
        delta == IF b1Len > b2Len THEN b1Len \div b2Len ELSE 1
    IN  c.p - delta

\* the new p on a hit in b2
ARCCache_shrinkP(c) ==
    LET b1Len == unsafeCache_Len(c.b1)
        b2Len == unsafeCache_Len(c.b2)
        delta == IF b1Len > b2Len THEN b1Len \div b2Len ELSE 1
    IN  IF delta >= c.p THEN 0 ELSE c.p - delta

ARCCache_Add(c, key, value) ==
    IF unsafeCache_Contains(c.t1, key)
    THEN LET r == unsafeCache_Remove(c.t1, key)
             a == unsafeCache_Add(c.t2, key, value)
         IN  [c |-> [c EXCEPT !.t1 = r.c, !.t2 = a.c], ev |-> r.ev \o a.ev]
    ELSE IF unsafeCache_Contains(c.t2, key)
    THEN LET a == unsafeCache_Add(c.t2, key, value)
         IN  [c |-> [c EXCEPT !.t2 = a.c], ev |-> a.ev]
    ELSE IF unsafeCache_Contains(c.b1, key)
    THEN LET c1 == [c EXCEPT !.p = ARCCache_growP(c)]
             e  == ARCCache_makeRoom(c1, FALSE)
             r  == unsafeCache_Remove(e.c.b1, key)
             a  == unsafeCache_Add(e.c.t2, key, value)
         IN  [c |-> [e.c EXCEPT !.b1 = r.c, !.t2 = a.c], ev |-> e.ev \o r.ev \o a.ev]
    ELSE IF unsafeCache_Contains(c.b2, key)
    THEN LET c1 == [c EXCEPT !.p = ARCCache_shrinkP(c)]
             e  == ARCCache_makeRoom(c1, TRUE)
             r  == unsafeCache_Remove(e.c.b2, key)
             a  == unsafeCache_Add(e.c.t2, key, value)
         IN  [c |-> [e.c EXCEPT !.b2 = r.c, !.t2 = a.c], ev |-> e.ev \o r.ev \o a.ev]
    ELSE LET e  == ARCCache_makeRoom(c, FALSE)
             o1 == IF unsafeCache_Len(e.c.b1) > c.maxEntries - c.p
                   THEN unsafeCache_RemoveOldest(e.c.b1)
                   ELSE [c |-> e.c.b1, ev |-> << >>]
             o2 == IF unsafeCache_Len(e.c.b2) > c.p
                   THEN unsafeCache_RemoveOldest(e.c.b2)
                   ELSE [c |-> e.c.b2, ev |-> << >>]
             a  == unsafeCache_Add(e.c.t1, key, value)
         IN  [c  |-> [e.c EXCEPT !.b1 = o1.c, !.b2 = o2.c, !.t1 = a.c],
              ev |-> e.ev \o o1.ev \o o2.ev \o a.ev]

ARCCache_Get(c, key) ==
    LET p == unsafeCache_Peek(c.t1, key)
        g == unsafeCache_Get(c.t2, key)
    IN  IF p.ok
        THEN LET r == unsafeCache_Remove(c.t1, key)
                 a == unsafeCache_Add(c.t2, key, p.value)
             IN  [c |-> [c EXCEPT !.t1 = r.c, !.t2 = a.c],
                  value |-> p.value, ok |-> TRUE, ev |-> r.ev \o a.ev]
        ELSE IF g.ok
        THEN [c |-> [c EXCEPT !.t2 = g.c], value |-> g.value, ok |-> TRUE, ev |-> << >>]
        ELSE [c |-> c, value |-> Zero, ok |-> FALSE, ev |-> << >>]

ARCCache_Contains(c, key) ==
    unsafeCache_Contains(c.t1, key) \/ unsafeCache_Contains(c.t2, key)

ARCCache_Peek(c, key) ==
    LET t == unsafeCache_Peek(c.t1, key)
        f == unsafeCache_Peek(c.t2, key)
    IN  IF t.ok
        THEN [c |-> [c EXCEPT !.t1 = t.c], value |-> t.value, ok |-> TRUE, ev |-> << >>]
        ELSE [c |-> [c EXCEPT !.t1 = t.c, !.t2 = f.c],
              value |-> f.value, ok |-> f.ok, ev |-> << >>]

\* the named result ok is never assigned: every path returns its zero value
ARCCache_Remove(c, key) ==
    LET r1 == unsafeCache_Remove(c.t1, key)
        r2 == unsafeCache_Remove(c.t2, key)
        g1 == unsafeCache_Remove(c.b1, key)
        g2 == unsafeCache_Remove(c.b2, key)
    IN  IF r1.ok THEN [c |-> [c EXCEPT !.t1 = r1.c], ok |-> FALSE, ev |-> r1.ev]
        ELSE IF r2.ok THEN [c |-> [c EXCEPT !.t2 = r2.c], ok |-> FALSE, ev |-> r2.ev]
        ELSE IF g1.ok THEN [c |-> [c EXCEPT !.b1 = g1.c], ok |-> FALSE, ev |-> g1.ev]
        ELSE IF g2.ok THEN [c |-> [c EXCEPT !.b2 = g2.c], ok |-> FALSE, ev |-> g2.ev]
        ELSE [c |-> c, ok |-> FALSE, ev |-> << >>]

ARCCache_Keys(c) == unsafeCache_Keys(c.t1) \o unsafeCache_Keys(c.t2)

ARCCache_Len(c) == unsafeCache_Len(c.t1) + unsafeCache_Len(c.t2)

\* Clear that forgets p as well
ARCCache_Clear_resetP(c, orders) ==
    LET r1 == unsafeCache_Clear(c.t1, orders[1])
        r2 == unsafeCache_Clear(c.t2, orders[2])
        g1 == unsafeCache_Clear(c.b1, orders[3])
        g2 == unsafeCache_Clear(c.b2, orders[4])
    IN  [c  |-> [c EXCEPT !.t1 = r1.c, !.t2 = r2.c, !.b1 = g1.c, !.b2 = g2.c,
                          !.p = 0],
         ev |-> r1.ev \o r2.ev \o g1.ev \o g2.ev]

\* orders: the visiting orders of the four buckets, in the order cleared
ARCCache_Clear(c, orders) ==
    LET r1 == unsafeCache_Clear(c.t1, orders[1])
        r2 == unsafeCache_Clear(c.t2, orders[2])
        g1 == unsafeCache_Clear(c.b1, orders[3])
        g2 == unsafeCache_Clear(c.b2, orders[4])
    IN  [c  |-> [c EXCEPT !.t1 = r1.c, !.t2 = r2.c, !.b1 = g1.c, !.b2 = g2.c],
         ev |-> r1.ev \o r2.ev \o g1.ev \o g2.ev]

(***************************************************************************)
(* The program: one cache is constructed, then its methods are called one  *)
(* at a time (each method of Cache, TwoQueueCache and ARCCache holds the   *)
(* cache's lock from entry to return).                                     *)
(*   cache   the constructed cache; cache.kind is "Lru", "2Q" or "ARC"     *)
(* History of an "Lru" cache, for the statements about whole runs:         *)
(*   mode    "adds": so far only Adds of pairwise distinct keys (and       *)
(*           reads); "addget": so far only Adds, Gets (and reads);         *)
(*           "any": some Remove, RemoveOldest, Resize or Clear was called  *)
(*   touched the keys touched so far, least recently touched first         *)
(*           (kept while mode # "any")                                     *)
(*   evlog   the keys of all callbacks so far, in the order called         *)
(*           (kept while mode = "adds")                                    *)
(***************************************************************************)
VARIABLES cache, mode, touched, evlog

(***************************************************************************)
(* The goroutines around one cache, for the statements about concurrent    *)
(* callers:                                                                *)
(*   callers what each calling goroutine is doing: where it is in its call *)
(*           (pc), the method and key once it holds the lock, and the      *)
(*           writes and callbacks it still has to make                     *)
(*   mu      the cache's sync.RWMutex: w, a writer holds it; r, the number *)
(*           of readers holding it                                         *)
(*   tasks   the goroutines started by "go c.onEvicted(key, value)" that   *)
(*           have not finished, as a bag of [pc, key]                      *)
(*   reenter what the callback given to the constructor does: "none", it   *)
(*           never touches the cache; "Len", it calls c.Len(); "Get", it   *)
(*           calls c.Get(key)                                              *)
(***************************************************************************)
VARIABLES callers, mu, tasks, reenter

vars == <<cache, mode, touched, evlog, callers, mu, tasks, reenter>>

\* the goroutines that call the cache
Procs == 1..NumProcs

\* a goroutine that is not inside the cache
Outside(pc) == [pc |-> pc, name |-> "", key |-> Zero, next |-> << >>, ev |-> << >>]

\* an RWMutex that nobody holds
Unlocked == [w |-> FALSE, r |-> 0]

\* a method called from the only goroutine there is
Alone == UNCHANGED <<callers, mu, tasks, reenter>>

\* New (part_001:45-49): a Cache around NewUnsafeLru
New(maxEntries, opt) == [kind |-> "Lru", lru |-> NewUnsafeLru(maxEntries, opt)]

Init ==
    /\ cache \in {New(n, o) : n \in SizeArgs, o \in OptionArgs}
          \cup {New2QParams(n, rr, gr, o) :
                    n \in SizeArgs, rr \in RatioArgs, gr \in RatioArgs, o \in OptionArgs}
          \cup {NewARC(n, o) : n \in SizeArgs, o \in OptionArgs}
    /\ mode = "adds"
    /\ touched = << >>
    /\ evlog = << >>
    /\ callers = [p \in Procs |-> Outside("start")]
    /\ mu = Unlocked
    /\ tasks = EmptyBag
    /\ reenter = "none"

SeqToSet(s) == {s[i] : i \in 1..Len(s)}

\* key becomes the most recently touched
Touch(s, key) == SelectSeq(s, LAMBDA k : k # key) \o <<key>>

EvKeys(ev) == [i \in 1..Len(ev) |-> ev[i].key]

\* the history after a call that is neither an Add nor a Get nor a read
Disturb ==
    /\ mode' = "any"
    /\ touched' = << >>
    /\ evlog' = << >>

\* the history after a read, and of a cache that is no "Lru"
Keep == UNCHANGED <<mode, touched, evlog>>

(* ---- Cache (part_001:60-149) ---- *)
Cache_Add ==
    /\ cache.kind = "Lru"
    /\ Alone
    /\ \E key \in KeySet, value \in ValSet :
          LET r == unsafeCache_Add(cache.lru, key, value)
          IN  /\ cache' = [cache EXCEPT !.lru = r.c]
              /\ mode' = IF mode = "adds" /\ key \in SeqToSet(touched)
                         THEN "addget" ELSE mode
              /\ touched' = IF mode = "any" THEN << >> ELSE Touch(touched, key)
              /\ evlog' = IF mode' = "adds" THEN evlog \o EvKeys(r.ev) ELSE << >>

Cache_Get ==
    /\ cache.kind = "Lru"
    /\ Alone
    /\ \E key \in KeySet :
          LET r == unsafeCache_Get(cache.lru, key)
          IN  /\ cache' = [cache EXCEPT !.lru = r.c]
              /\ mode' = IF mode = "adds" THEN "addget" ELSE mode
              /\ touched' = IF mode = "any" THEN << >>
                            ELSE IF r.ok THEN Touch(touched, key) ELSE touched
              /\ evlog' = << >>

Cache_Peek ==
    /\ cache.kind = "Lru"
    /\ Alone
    /\ \E key \in KeySet :
          cache' = [cache EXCEPT !.lru = unsafeCache_Peek(cache.lru, key).c]
    /\ Keep

Cache_Remove ==
    /\ cache.kind = "Lru"
    /\ Alone
    /\ \E key \in KeySet :
          cache' = [cache EXCEPT !.lru = unsafeCache_Remove(cache.lru, key).c]
    /\ Disturb

Cache_RemoveOldest ==
    /\ cache.kind = "Lru"
    /\ Alone
    /\ cache' = [cache EXCEPT !.lru = unsafeCache_RemoveOldest(cache.lru).c]
    /\ Disturb

Cache_Resize ==
    /\ cache.kind = "Lru"
    /\ Alone
    /\ \E size \in ResizeArgs :
          cache' = [cache EXCEPT !.lru = unsafeCache_Resize(cache.lru, size).c]
    /\ Disturb

Cache_Clear ==
    /\ cache.kind = "Lru"
    /\ Alone
    /\ \E order \in RangeOrders(cache.lru.bucket) :
          cache' = [cache EXCEPT !.lru = unsafeCache_Clear(cache.lru, order).c]
    /\ Disturb

\* Contains, GetOldest, Keys, Len: the cache is read under RLock and left as it is
Cache_Read ==
    /\ cache.kind = "Lru"
    /\ Alone
    /\ UNCHANGED cache
    /\ Keep

(* ---- TwoQueueCache ---- *)
TwoQueueCache_Add_ ==
    /\ cache.kind = "2Q"
    /\ Alone
    /\ \E key \in KeySet, value \in ValSet :
          cache' = TwoQueueCache_Add(cache, key, value).c
    /\ Keep

TwoQueueCache_Get_ ==
    /\ cache.kind = "2Q"
    /\ Alone
    /\ \E key \in KeySet : cache' = TwoQueueCache_Get(cache, key).c
    /\ Keep

TwoQueueCache_Peek_ ==
    /\ cache.kind = "2Q"
    /\ Alone
    /\ \E key \in KeySet : cache' = TwoQueueCache_Peek(cache, key).c
    /\ Keep

TwoQueueCache_Remove_ ==
    /\ cache.kind = "2Q"
    /\ Alone
    /\ \E key \in KeySet : cache' = TwoQueueCache_Remove(cache, key).c
    /\ Keep

TwoQueueCache_Clear_ ==
    /\ cache.kind = "2Q"
    /\ Alone
    /\ \E o1 \in RangeOrders(cache.recent.bucket),
          o2 \in RangeOrders(cache.frequent.bucket),
          o3 \in RangeOrders(cache.recentEvict.bucket) :
          cache' = TwoQueueCache_Clear(cache, <<o1, o2, o3>>).c
    /\ Keep

\* Contains, Keys, Len: the cache is read under RLock and left as it is
TwoQueueCache_Read_ ==
    /\ cache.kind = "2Q"
    /\ Alone
    /\ UNCHANGED cache
    /\ Keep

(* ---- ARCCache ---- *)
ARCCache_Add_ ==
    /\ cache.kind = "ARC"
    /\ Alone
    /\ \E key \in KeySet, value \in ValSet :
          cache' = ARCCache_Add(cache, key, value).c
    /\ Keep

ARCCache_Get_ ==
    /\ cache.kind = "ARC"
    /\ Alone
    /\ \E key \in KeySet : cache' = ARCCache_Get(cache, key).c
    /\ Keep

ARCCache_Peek_ ==
    /\ cache.kind = "ARC"
    /\ Alone
    /\ \E key \in KeySet : cache' = ARCCache_Peek(cache, key).c
    /\ Keep

ARCCache_Remove_ ==
    /\ cache.kind = "ARC"
    /\ Alone
    /\ \E key \in KeySet : cache' = ARCCache_Remove(cache, key).c
    /\ Keep

ARCCache_Clear_ ==
    /\ cache.kind = "ARC"
    /\ Alone
    /\ \E o1 \in RangeOrders(cache.t1.bucket),
          o2 \in RangeOrders(cache.t2.bucket),
          o3 \in RangeOrders(cache.b1.bucket),
          o4 \in RangeOrders(cache.b2.bucket) :
          cache' = ARCCache_Clear(cache, <<o1, o2, o3, o4>>).c
    /\ Keep

\* Contains, Keys, Len: the cache is read under RLock and left as it is
ARCCache_Read_ ==
    /\ cache.kind = "ARC"
    /\ Alone
    /\ UNCHANGED cache
    /\ Keep

Next ==
    \/ Cache_Add \/ Cache_Get \/ Cache_Peek \/ Cache_Remove \/ Cache_RemoveOldest
    \/ Cache_Resize \/ Cache_Clear \/ Cache_Read
    \/ TwoQueueCache_Add_ \/ TwoQueueCache_Get_ \/ TwoQueueCache_Peek_
    \/ TwoQueueCache_Remove_ \/ TwoQueueCache_Clear_ \/ TwoQueueCache_Read_
    \/ ARCCache_Add_ \/ ARCCache_Get_ \/ ARCCache_Peek_
    \/ ARCCache_Remove_ \/ ARCCache_Clear_ \/ ARCCache_Read_

Spec == Init /\ [][Next]_vars

(***************************************************************************)
(* The calls that can be made on the cache as it is now, each with what it *)
(* does: a record of the method's name, its arguments and r, the result    *)
(* of the method's operator.                                               *)
(***************************************************************************)
LruCalls(c) ==
    {[name |-> "Add", key |-> k, value |-> v, r |-> unsafeCache_Add(c, k, v)] :
        k \in KeySet, v \in ValSet}
    \cup {[name |-> "Get", key |-> k, r |-> unsafeCache_Get(c, k)] : k \in KeySet}
    \cup {[name |-> "Peek", key |-> k, r |-> unsafeCache_Peek(c, k)] : k \in KeySet}
    \cup {[name |-> "Remove", key |-> k, r |-> unsafeCache_Remove(c, k)] : k \in KeySet}
    \cup {[name |-> "RemoveOldest", r |-> unsafeCache_RemoveOldest(c)]}
    \cup {[name |-> "Resize", size |-> n, r |-> unsafeCache_Resize(c, n)] :
            n \in ResizeArgs}
    \cup {[name |-> "Clear", r |-> unsafeCache_Clear(c, o)] : o \in RangeOrders(c.bucket)}

TwoQueueCalls(c) ==
    {[name |-> "Add", key |-> k, value |-> v, r |-> TwoQueueCache_Add(c, k, v)] :
        k \in KeySet, v \in ValSet}
    \cup {[name |-> "Get", key |-> k, r |-> TwoQueueCache_Get(c, k)] : k \in KeySet}
    \cup {[name |-> "Peek", key |-> k, r |-> TwoQueueCache_Peek(c, k)] : k \in KeySet}
    \cup {[name |-> "Remove", key |-> k, r |-> TwoQueueCache_Remove(c, k)] : k \in KeySet}
    \cup {[name |-> "Clear", r |-> TwoQueueCache_Clear(c, <<o1, o2, o3>>)] :
            o1 \in RangeOrders(c.recent.bucket),
            o2 \in RangeOrders(c.frequent.bucket),
            o3 \in RangeOrders(c.recentEvict.bucket)}

ARCCalls(c) ==
    {[name |-> "Add", key |-> k, value |-> v, r |-> ARCCache_Add(c, k, v)] :
        k \in KeySet, v \in ValSet}
    \cup {[name |-> "Get", key |-> k, r |-> ARCCache_Get(c, k)] : k \in KeySet}
    \cup {[name |-> "Peek", key |-> k, r |-> ARCCache_Peek(c, k)] : k \in KeySet}
    \cup {[name |-> "Remove", key |-> k, r |-> ARCCache_Remove(c, k)] : k \in KeySet}
    \cup {[name |-> "Clear", r |-> ARCCache_Clear(c, <<o1, o2, o3, o4>>)] :
            o1 \in RangeOrders(c.t1.bucket), o2 \in RangeOrders(c.t2.bucket),
            o3 \in RangeOrders(c.b1.bucket), o4 \in RangeOrders(c.b2.bucket)}

Min(a, b) == IF a < b THEN a ELSE b
Max(a, b) == IF a > b THEN a ELSE b

\* the last n elements of s
LastN(s, n) == SubSeq(s, Len(s) - n + 1, Len(s))

(***************************************************************************)
(* C1. An LRU cache built with capacity c >= 1 on which only Add and Get   *)
(* (and reads) were called holds at most c keys, and Keys() is the         *)
(* min(c, number of distinct keys touched) most recently touched keys,     *)
(* least recently touched first (touched: added, or hit by Get).           *)
(***************************************************************************)
LruKeepsMostRecent ==
    (cache.kind = "Lru" /\ mode # "any") =>
        /\ cache.lru.maxEntries >= 1
        /\ unsafeCache_Len(cache.lru) <= cache.lru.maxEntries
        /\ unsafeCache_Keys(cache.lru)
              = LastN(touched, Min(cache.lru.maxEntries, Len(touched)))

\* key 1 was touched a second time, then the Add of 3 evicted key 2
LruKeepsMostRecentWitness ==
    /\ cache.kind = "Lru"
    /\ mode = "addget"
    /\ cache.lru.maxEntries = 2
    /\ touched = <<2, 1, 3>>
    /\ unsafeCache_Keys(cache.lru) = <<1, 3>>

(***************************************************************************)
(* C2. An ARCCache never holds more than maxEntries entries:               *)
(* |t1| + |t2| <= maxEntries in every reachable state.                     *)
(***************************************************************************)
ARCLenWithinMaxEntries ==
    cache.kind = "ARC" => ARCCache_Len(cache) <= cache.maxEntries

(***************************************************************************)
(* C3. A TwoQueueCache never holds more than maxEntries entries:           *)
(* |recent| + |frequent| <= maxEntries in every reachable state.           *)
(***************************************************************************)
TwoQueueLenWithinMaxEntries ==
    cache.kind = "2Q" => TwoQueueCache_Len(cache) <= cache.maxEntries

\* S1, S2, ... are pairwise disjoint
Disjoint(sets) ==
    \A i, j \in DOMAIN sets : i # j => sets[i] \cap sets[j] = {}

(***************************************************************************)
(* C4. A key is in at most one of frequent, recent, recentEvict of a       *)
(* TwoQueueCache, and in at most one of t1, t2, b1, b2 of an ARCCache.     *)
(***************************************************************************)
KeyInAtMostOneList ==
    /\ cache.kind = "2Q" =>
          Disjoint(<<cache.frequent.bucket, cache.recent.bucket,
                     cache.recentEvict.bucket>>)
    /\ cache.kind = "ARC" =>
          Disjoint(<<cache.t1.bucket, cache.t2.bucket, cache.b1.bucket,
                     cache.b2.bucket>>)

\* replace has moved a key of t1 to b1 while t1 and t2 hold other keys
KeyInAtMostOneListWitness ==
    /\ cache.kind = "ARC"
    /\ cache.b1.bucket # {}
    /\ cache.t1.bucket # {}
    /\ cache.t2.bucket # {}

\* The keys held by any inner list of the cache
Held(c) ==
    CASE c.kind = "Lru" -> c.lru.bucket
      [] c.kind = "2Q"  -> c.frequent.bucket \cup c.recent.bucket
                              \cup c.recentEvict.bucket
      [] c.kind = "ARC" -> c.t1.bucket \cup c.t2.bucket \cup c.b1.bucket
                              \cup c.b2.bucket

\* Remove of the cache's kind: the cache after the call and the result ok
RemoveOf(c, key) ==
    CASE c.kind = "Lru" ->
            LET r == unsafeCache_Remove(c.lru, key)
            IN  [c |-> [c EXCEPT !.lru = r.c], ok |-> r.ok]
      [] c.kind = "2Q"  ->
            LET r == TwoQueueCache_Remove(c, key) IN [c |-> r.c, ok |-> r.ok]
      [] c.kind = "ARC" ->
            LET r == ARCCache_Remove(c, key) IN [c |-> r.c, ok |-> r.ok]

(***************************************************************************)
(* C5. Remove(key) returns true exactly when the key was held before the   *)
(* call (Cache: in the cache; TwoQueueCache: in frequent, recent or the    *)
(* ghost list; ARCCache: in t1, t2, b1 or b2), and the key is held nowhere *)
(* afterwards.                                                             *)
(***************************************************************************)
RemoveReturnsWhetherHeld ==
    \A key \in KeySet :
        LET r == RemoveOf(cache, key)
        IN  /\ r.ok <=> key \in Held(cache)
            /\ key \notin Held(r.c)

(***************************************************************************)
(* The cache's kind taken away: every call, and the reads, of any cache.   *)
(***************************************************************************)
CallsOf(c) ==
    CASE c.kind = "Lru" ->
            {[s EXCEPT !.r.c = [c EXCEPT !.lru = s.r.c]] : s \in LruCalls(c.lru)}
      [] c.kind = "2Q"  -> TwoQueueCalls(c)
      [] c.kind = "ARC" -> ARCCalls(c)

LenOf(c) ==
    CASE c.kind = "Lru" -> unsafeCache_Len(c.lru)
      [] c.kind = "2Q"  -> TwoQueueCache_Len(c)
      [] c.kind = "ARC" -> ARCCache_Len(c)

ContainsOf(c, key) ==
    CASE c.kind = "Lru" -> unsafeCache_Contains(c.lru, key)
      [] c.kind = "2Q"  -> TwoQueueCache_Contains(c, key)
      [] c.kind = "ARC" -> ARCCache_Contains(c, key)

KeysOf(c) ==
    CASE c.kind = "Lru" -> unsafeCache_Keys(c.lru)
      [] c.kind = "2Q"  -> TwoQueueCache_Keys(c)
      [] c.kind = "ARC" -> ARCCache_Keys(c)

\* Peek: the value and ok
PeekOf(c, key) ==
    LET r == CASE c.kind = "Lru" -> unsafeCache_Peek(c.lru, key)
               [] c.kind = "2Q"  -> TwoQueueCache_Peek(c, key)
               [] c.kind = "ARC" -> ARCCache_Peek(c, key)
    IN  [value |-> r.value, ok |-> r.ok]

\* the option the cache was built with set a callback
HasCallback(c) ==
    CASE c.kind = "Lru" -> c.lru.onEvicted
      [] c.kind = "2Q"  -> c.recent.onEvicted
      [] c.kind = "ARC" -> c.t1.onEvicted

Resident(c) == {k \in KeySet : ContainsOf(c, k)}

(***************************************************************************)
(* C6. On an LRU cache with a callback, every call invokes the callback    *)
(* exactly once for each entry it removes, with that entry's key and       *)
(* value, and not otherwise: never in Get, Peek or an Add of a key already *)
(* held. So after Adds of N distinct keys to a cache of capacity c the     *)
(* callback has been invoked max(0, N - c) times, for the N - c oldest     *)
(* keys.                                                                   *)
(***************************************************************************)
CallbackOncePerRemovedEntry ==
    (cache.kind = "Lru" /\ cache.lru.onEvicted) =>
        /\ \A s \in LruCalls(cache.lru) :
              LET c       == cache.lru
                  ev      == s.r.ev
                  before  == c.bucket \cup (IF s.name = "Add" THEN {s.key} ELSE {})
                  removed == before \ s.r.c.bucket
                  valueOf(k) == IF k \in c.bucket
                                THEN list_Elem(c.entries, k).value ELSE s.value
              IN  /\ Len(ev) = Cardinality(removed)
                  /\ {ev[i].key : i \in 1..Len(ev)} = removed
                  /\ \A i \in 1..Len(ev) : ev[i].value = valueOf(ev[i].key)
                  /\ (s.name \in {"Get", "Peek"} \/ (s.name = "Add" /\ s.key \in c.bucket))
                        => ev = << >>
        /\ mode = "adds" =>
              evlog = SubSeq(touched, 1, Max(0, Len(touched) - cache.lru.maxEntries))

\* three distinct keys were added to a cache of capacity 1: two callbacks
CallbackOncePerRemovedEntryWitness ==
    /\ cache.kind = "Lru"
    /\ cache.lru.onEvicted
    /\ mode = "adds"
    /\ Len(touched) = 3
    /\ Len(evlog) = 2

(***************************************************************************)
(* C7. On a TwoQueueCache or ARCCache every callback (k, v) that a call    *)
(* makes is for an entry leaving the cache: k was resident with value v    *)
(* before the call and is not resident after it.                           *)
(***************************************************************************)
CallbackOnlyForLeavingEntry ==
    cache.kind \in {"2Q", "ARC"} =>
        \A s \in CallsOf(cache) : \A i \in 1..Len(s.r.ev) :
            LET e == s.r.ev[i]
            IN  /\ PeekOf(cache, e.key) = [value |-> e.value, ok |-> TRUE]
                /\ ~ContainsOf(s.r.c, e.key)

(***************************************************************************)
(* C8. On every kind of cache with a callback, Clear() invokes the         *)
(* callback exactly once per resident entry (Len() invocations, one per    *)
(* key k with Contains(k)), and afterwards Len() = 0 and Contains(k) is    *)
(* false for every key held before.                                        *)
(***************************************************************************)
ClearCallsBackOncePerResident ==
    HasCallback(cache) =>
        \A s \in CallsOf(cache) : s.name = "Clear" =>
            /\ Len(s.r.ev) = LenOf(cache)
            /\ {s.r.ev[i].key : i \in 1..Len(s.r.ev)} = Resident(cache)
            /\ LenOf(s.r.c) = 0
            /\ Resident(s.r.c) = {}

\* Add of the cache's kind: the cache after the call
AddOf(c, key, value) ==
    CASE c.kind = "Lru" -> [c EXCEPT !.lru = unsafeCache_Add(c.lru, key, value).c]
      [] c.kind = "2Q"  -> TwoQueueCache_Add(c, key, value).c
      [] c.kind = "ARC" -> ARCCache_Add(c, key, value).c

\* Peek of the cache's kind: the cache after the call
AfterPeek(c, key) ==
    CASE c.kind = "Lru" -> [c EXCEPT !.lru = unsafeCache_Peek(c.lru, key).c]
      [] c.kind = "2Q"  -> TwoQueueCache_Peek(c, key).c
      [] c.kind = "ARC" -> ARCCache_Peek(c, key).c

\* Get of the cache's kind: the cache after the call, the value and ok
GetOf(c, key) ==
    CASE c.kind = "Lru" ->
            LET r == unsafeCache_Get(c.lru, key)
            IN  [c |-> [c EXCEPT !.lru = r.c], value |-> r.value, ok |-> r.ok]
      [] c.kind = "2Q"  ->
            LET r == TwoQueueCache_Get(c, key)
            IN  [c |-> r.c, value |-> r.value, ok |-> r.ok]
      [] c.kind = "ARC" ->
            LET r == ARCCache_Get(c, key)
            IN  [c |-> r.c, value |-> r.value, ok |-> r.ok]

\* the capacity the cache has now
CapacityOf(c) == IF c.kind = "Lru" THEN c.lru.maxEntries ELSE c.maxEntries

\* the list whose order governs a key that Get has hit
Governing(c) ==
    CASE c.kind = "Lru" -> c.lru
      [] c.kind = "2Q"  -> c.frequent
      [] c.kind = "ARC" -> c.t2

(***************************************************************************)
(* C9. On a cache of positive capacity, in any reachable state: after      *)
(* Add(k, v), Peek(k) returns (v, true) and leaves Keys() as it was, and a *)
(* Get(k) right after returns (v, true) and makes k the newest entry of    *)
(* the list that governs it (the list of an LRU cache, frequent, t2).      *)
(***************************************************************************)
AddPeekGetRoundTrip ==
    CapacityOf(cache) >= 1 =>
        \A k \in KeySet, v \in ValSet :
            LET added  == AddOf(cache, k, v)
                peeked == AfterPeek(added, k)
                got    == GetOf(peeked, k)
                newest == unsafeCache_Keys(Governing(got.c))
            IN  /\ PeekOf(added, k) = [value |-> v, ok |-> TRUE]
                /\ KeysOf(peeked) = KeysOf(added)
                /\ got.ok /\ got.value = v
                /\ newest # << >> /\ newest[Len(newest)] = k

\* a full cache holding key 1 with value 0 in t1 and with a key in a ghost
\* list: Add(1, 1) changes the value and promotes, Add of the ghost key evicts
AddPeekGetRoundTripWitness ==
    /\ cache.kind = "ARC"
    /\ ARCCache_Len(cache) = cache.maxEntries
    /\ unsafeCache_Peek(cache.t1, 1) = [c |-> cache.t1, value |-> 0, ok |-> TRUE, ev |-> << >>]
    /\ cache.b1.bucket # {}
    /\ PeekOf(AddOf(cache, 1, 1), 1) = [value |-> 1, ok |-> TRUE]

ResizeReturnsEvictedCount ==
    cache.kind = "Lru" =>
        \A size \in ResizeArgs :
            LET c == cache.lru
                r == unsafeCache_Resize(c, size)
            IN  /\ r.evicted = unsafeCache_Len(c) - unsafeCache_Len(r.c)
                /\ c.onEvicted => r.evicted = Len(r.ev)

(***************************************************************************)
(* C12, amended. Resize(size) returns max(0, Len() - size). The number of  *)
(* entries it evicts, Len() before minus Len() after, is the number of     *)
(* callbacks it makes and is min(Len(), max(0, Len() - size)); the count   *)
(* returned equals it when size >= 0 and exceeds it by -size when          *)
(* size < 0.                                                               *)
(***************************************************************************)
ResizeReturnsLenMinusSize ==
    cache.kind = "Lru" =>
        \A size \in ResizeArgs :
            LET c       == cache.lru
                L       == unsafeCache_Len(c)
                r       == unsafeCache_Resize(c, size)
                removed == L - unsafeCache_Len(r.c)
            IN  /\ r.evicted = Max(0, L - size)
                /\ removed = Min(L, Max(0, L - size))
                /\ Len(r.ev) = (IF c.onEvicted THEN removed ELSE 0)
                /\ size >= 0 => r.evicted = removed
                /\ size < 0 => r.evicted = removed - size

\* a cache of two entries with a callback: Resize(-1) returns 3, having
\* evicted two entries and made two callbacks
ResizeReturnsLenMinusSizeWitness ==
    /\ cache.kind = "Lru"
    /\ cache.lru.onEvicted
    /\ unsafeCache_Len(cache.lru) = 2
    /\ LET r == unsafeCache_Resize(cache.lru, -1)
       IN  /\ r.evicted = 3
           /\ Len(r.ev) = 2
           /\ unsafeCache_Len(r.c) = 0

\* the keys of a list, oldest entry first, read off its entries
OldestFirst(l) == Reverse([i \in 1..Len(l.entries) |-> l.entries[i].key])

\* a TwoQueueCache as New2Q(maxEntries) builds it, whatever it holds
HasDefaultRatios(c) ==
    /\ c.recentEntries = (c.maxEntries * default2QRecentRatio) \div 100
    /\ c.recentEvict.maxEntries
          = LET n == (c.maxEntries * default2QGhostEntries) \div 100
            IN  IF n <= 0 THEN defaultSize ELSE n

(***************************************************************************)
(* C17. TwoQueueCache. Whenever Add(k, v) or Get(k) finds k in recent, k   *)
(* leaves recent (the other keys of recent keep their order) and becomes   *)
(* the newest entry of frequent, with value v for Add and its own value    *)
(* for Get, and Len() is what it was. Keys() is always the keys of         *)
(* frequent, oldest first, followed by the keys of recent, oldest first.   *)
(* So when a cache with the default ratios holds maxEntries keys, all in   *)
(* recent, adding the oldest again puts it in frequent and at the head of  *)
(* Keys().                                                                 *)
(***************************************************************************)
PromotionKeepsLen ==
    cache.kind = "2Q" =>
        /\ TwoQueueCache_Keys(cache)
              = OldestFirst(cache.frequent) \o OldestFirst(cache.recent)
        /\ \A k \in cache.recent.bucket :
              LET old == list_Elem(cache.recent.entries, k).value
                  promoted(c2, v) ==
                      /\ k \notin c2.recent.bucket
                      /\ OldestFirst(c2.recent)
                            = SelectSeq(OldestFirst(cache.recent), LAMBDA x : x # k)
                      /\ c2.frequent.entries # << >>
                      /\ c2.frequent.entries[1] = [key |-> k, value |-> v]
                      /\ TwoQueueCache_Len(c2) = TwoQueueCache_Len(cache)
              IN  /\ \A v \in ValSet : promoted(TwoQueueCache_Add(cache, k, v).c, v)
                  /\ LET g == TwoQueueCache_Get(cache, k)
                     IN  g.ok /\ g.value = old /\ promoted(g.c, old)
        /\ (/\ HasDefaultRatios(cache)
            /\ cache.frequent.bucket = {}
            /\ unsafeCache_Len(cache.recent) = cache.maxEntries) =>
              LET first == OldestFirst(cache.recent)[1]
                  after == TwoQueueCache_Add(cache, first, Zero).c
              IN  /\ OldestFirst(after.frequent) = <<first>>
                  /\ TwoQueueCache_Keys(after)
                        = <<first>> \o Tail(OldestFirst(cache.recent))

\* an ARCCache right after Add(k) and then Adds of maxEntries further
\* distinct keys: t1 is full, k is the one key of b1, p is still 0
EvictedIntoB1(c, k) ==
    /\ c.kind = "ARC"
    /\ c.p = 0
    /\ unsafeCache_Len(c.t1) = c.maxEntries
    /\ c.t2.bucket = {} /\ c.b2.bucket = {}
    /\ c.b1.bucket = {k}

(***************************************************************************)
(* C18. ARCCache, ghost hit in b1. In the state reached from a fresh cache *)
(* by Add(k) and Adds of maxEntries further distinct keys, k is in b1; a   *)
(* following Add(k, v) raises p by at least 1 and leaves k in t2 with      *)
(* value v, and in none of t1, b1, b2. For a hit in b1 in any state, k     *)
(* lands in t2 alone, as its newest entry, and p becomes                   *)
(* min(p + max(1, |b2| / |b1|), maxEntries).                               *)
(***************************************************************************)
GhostHitLandsInT2 ==
    cache.kind = "ARC" =>
        \A k \in cache.b1.bucket, v \in ValSet :
            LET r == ARCCache_Add(cache, k, v).c
            IN  /\ unsafeCache_Peek(r.t2, k).ok
                /\ unsafeCache_Peek(r.t2, k).value = v
                /\ r.t2.entries[1].key = k
                /\ k \notin r.t1.bucket \cup r.b1.bucket \cup r.b2.bucket
                /\ r.p >= cache.p
                /\ r.p = Min(cache.p + Max(1, unsafeCache_Len(cache.b2)
                                               \div unsafeCache_Len(cache.b1)),
                             cache.maxEntries)
                /\ EvictedIntoB1(cache, k) => r.p >= cache.p + 1

\* maxEntries = 2: after Add(1), Add(2), Add(3) key 1 is in b1, and
\* Add(1, 1) brings it back into t2 with p = 1
GhostHitLandsInT2Witness ==
    /\ EvictedIntoB1(cache, 1)
    /\ cache.maxEntries = 2
    /\ unsafeCache_Keys(cache.t1) = <<2, 3>>
    /\ LET r == ARCCache_Add(cache, 1, 1).c
       IN  r.p = 1 /\ unsafeCache_Keys(r.t2) = <<1>>

\* evictEntries of New2QParams, read back from the ghost list: NewUnsafeLru
\* has replaced an evictEntries of 0 by defaultSize
EvictEntriesOf(c) ==
    IF c.recentEvict.maxEntries = defaultSize
    THEN 0 ELSE c.recentEvict.maxEntries

(***************************************************************************)
(* C19. TwoQueueCache: the ghost list recentEvict never holds more than    *)
(* floor(maxEntries * ghostRatio) keys; it is always empty when that       *)
(* number is 0.                                                            *)
(***************************************************************************)
GhostWithinEvictEntries ==
    cache.kind = "2Q" =>
        unsafeCache_Len(cache.recentEvict) <= EvictEntriesOf(cache)

(***************************************************************************)
(* C20. ARCCache: 0 <= p <= maxEntries in every state reached by Add, Get, *)
(* Remove and Clear, and after every such call.                            *)
(***************************************************************************)
AdaptiveParameterInRange ==
    cache.kind = "ARC" =>
        /\ 0 <= cache.p /\ cache.p <= cache.maxEntries
        /\ \A s \in ARCCalls(cache) :
              0 <= s.r.c.p /\ s.r.c.p <= s.r.c.maxEntries

\* p is 0 and a key is in b2: the hit in b2 that Add of this key makes
\* meets the clamp at 0
AdaptiveParameterInRangeWitness ==
    /\ cache.kind = "ARC"
    /\ cache.p = 0
    /\ cache.b2.bucket # {}
    /\ \A k \in cache.b2.bucket : ARCCache_Add(cache, k, 1).c.p = 0

(***************************************************************************)
(* Concurrent callers. NumProcs goroutines call one Cache, TwoQueueCache   *)
(* or ARCCache, each one method once. A call is "c.Lock(); defer           *)
(* c.Unlock()" or "c.RLock(); defer c.RUnlock()" around the work on the    *)
(* inner lists. The method and its arguments are locals of the goroutine:  *)
(* they are drawn when it gets the lock, which is when they first matter   *)
(* to anyone else. The work of a mutating method is taken in two steps,    *)
(* its first write (FirstWrite) and the rest, so that the inner lists      *)
(* pass through a state that no whole operation leaves.                    *)
(*   pc of a caller: "start", "Lock" / "RLock" (inside c.Lock / c.RLock),  *)
(*   "write" (holds the lock, first write made), "callback" (holds the     *)
(*   lock, inside c.onEvicted called inline), "read" (holds the read       *)
(*   lock), "returned". A caller with callbacks left (ev) whose pc is      *)
(*   "Lock" or "RLock" is inside a callback that has called the cache.     *)
(*   pc of a task: "go" (started), "Lock" / "RLock", "write", "read".      *)
(***************************************************************************)
InitConcurrent ==
    /\ \E n \in 1..MaxSize, o \in OptionArgs \ {"none"} :
          cache \in {New(n, o), New2Q(n, o), NewARC(n, o)}
    /\ mode = "adds"
    /\ touched = << >>
    /\ evlog = << >>
    /\ callers = [p \in Procs |-> Outside("start")]
    /\ mu = Unlocked
    /\ tasks = EmptyBag
    /\ reenter \in {"none", "Len", "Get"}

\* Lock that never waits
LockFree_always(m) == TRUE

\* sync.RWMutex: Lock returns once no writer and no reader holds the mutex
LockFree(m) == ~m.w /\ m.r = 0

\* RLock that never waits
RLockFree_always(m) == TRUE

\* sync.RWMutex: RLock returns once no writer holds the mutex
RLockFree(m) == ~m.w

\* the methods that take c.Lock(), called on c with the value 1: the method,
\* its key, the cache it leaves and the callbacks it makes
MutatingCalls(c) ==
    {[name |-> s.name,
      key  |-> IF s.name \in {"Add", "Get", "Remove"} THEN s.key ELSE Zero,
      next |-> s.r.c,
      ev   |-> s.r.ev] :
        s \in {t \in CallsOf(c) : t.name # "Peek" /\ (t.name = "Add" => t.value = 1)}}

\* Get(key) alone: what a callback that calls c.Get(key) calls
GetCall(c, key) == {s \in MutatingCalls(c) : s.name = "Get" /\ s.key = key}

\* the inner lists after the first write of a mutating method: the new entry
\* is in before the oldest is evicted; the promoted key has left recent (t1)
\* before it is added to frequent (t2)
FirstWrite(c, name, key, value) ==
    CASE c.kind = "Lru" /\ name = "Add" /\ key \notin c.lru.bucket ->
            [c EXCEPT !.lru.entries = list_PushFront(@, [key |-> key, value |-> value]),
                      !.lru.bucket  = @ \cup {key}]
      [] c.kind = "2Q" /\ name \in {"Add", "Get"}
            /\ key \notin c.frequent.bucket /\ key \in c.recent.bucket ->
            [c EXCEPT !.recent = removeElement(c.recent, key).c]
      [] c.kind = "ARC" /\ name \in {"Add", "Get"} /\ key \in c.t1.bucket ->
            [c EXCEPT !.t1 = removeElement(c.t1, key).c]
      [] OTHER -> c

\* the goroutines that "go c.onEvicted(key, value)" starts for ev
RECURSIVE Started(_)
Started(ev) ==
    IF ev = << >> THEN EmptyBag
    ELSE SetToBag({[pc |-> "go", key |-> Head(ev).key]}) (+) Started(Tail(ev))

\* the history of an "Lru" cache after a mutating call that has left the
\* cache next
Recorded(name, key, next, ev) ==
    IF cache.kind # "Lru" THEN Keep
    ELSE IF name = "Add"
    THEN /\ mode' = IF mode = "adds" /\ key \in SeqToSet(touched)
                    THEN "addget" ELSE mode
         /\ touched' = IF mode = "any" THEN << >> ELSE Touch(touched, key)
         /\ evlog' = IF mode' = "adds" THEN evlog \o EvKeys(ev) ELSE << >>
    ELSE IF name = "Get"
    THEN /\ mode' = IF mode = "adds" THEN "addget" ELSE mode
         /\ touched' = IF mode = "any" THEN << >>
                       ELSE IF key \in next.lru.bucket
                       THEN Touch(touched, key) ELSE touched
         /\ evlog' = << >>
    ELSE Disturb

\* the goroutine calls Add, Get, Remove, RemoveOldest, Resize or Clear
CallMutating(p) ==
    /\ callers[p].pc = "start"
    /\ callers' = [callers EXCEPT ![p].pc = "Lock"]
    /\ UNCHANGED <<cache, mode, touched, evlog, mu, tasks, reenter>>

\* the goroutine calls Contains, Peek, GetOldest, Keys or Len
CallReadOnly(p) ==
    /\ callers[p].pc = "start"
    /\ callers' = [callers EXCEPT ![p].pc = "RLock"]
    /\ UNCHANGED <<cache, mode, touched, evlog, mu, tasks, reenter>>

\* c.Lock() returns and the method makes its first write; the callbacks of
\* a call made from inside a callback run before those still left
Lock(p) ==
    /\ callers[p].pc = "Lock"
    /\ LockFree(mu)
    /\ LET me == callers[p]
       IN  \E s \in IF me.ev = << >> THEN MutatingCalls(cache)
                    ELSE GetCall(cache, Head(me.ev).key) :
              /\ callers' = [callers EXCEPT ![p] =
                    [pc |-> "write", name |-> s.name, key |-> s.key,
                     next |-> <<s.next>>,
                     ev |-> IF me.ev = << >> THEN s.ev ELSE s.ev \o Tail(me.ev)]]
              /\ cache' = FirstWrite(cache, s.name, s.key, 1)
    /\ mu' = [mu EXCEPT !.w = TRUE]
    /\ UNCHANGED <<mode, touched, evlog, tasks, reenter>>

\* the rest of the method's writes; evicting starts a goroutine for each
\* callback of the async mode; with no callback to run inline the method
\* returns and the deferred c.Unlock() runs
Write(p) ==
    /\ callers[p].pc = "write"
    /\ LET me     == callers[p]
           inline == SelectSeq(me.ev, LAMBDA e : ~e.go)
       IN  /\ cache' = me.next[1]
           /\ Recorded(me.name, me.key, me.next[1], me.ev)
           /\ tasks' = tasks (+) Started(SelectSeq(me.ev, LAMBDA e : e.go))
           /\ IF inline = << >>
              THEN /\ callers' = [callers EXCEPT ![p] = Outside("returned")]
                   /\ mu' = [mu EXCEPT !.w = FALSE]
              ELSE /\ callers' = [callers EXCEPT ![p] =
                          [me EXCEPT !.pc = "callback", !.next = << >>, !.ev = inline]]
                   /\ mu' = mu
    /\ UNCHANGED reenter

\* c.onEvicted(key, value) called inline: it returns, or it calls c.Len() or
\* c.Get(key); after the last one the method returns and c.Unlock() runs
Callback(p) ==
    /\ callers[p].pc = "callback"
    /\ LET me == callers[p]
       IN  IF me.ev # << >> /\ reenter # "none"
           THEN /\ callers' = [callers EXCEPT ![p].pc =
                                  IF reenter = "Len" THEN "RLock" ELSE "Lock"]
                /\ mu' = mu
           ELSE IF Len(me.ev) > 1
           THEN /\ callers' = [callers EXCEPT ![p].ev = Tail(me.ev)]
                /\ mu' = mu
           ELSE /\ callers' = [callers EXCEPT ![p] = Outside("returned")]
                /\ mu' = [mu EXCEPT !.w = FALSE]
    /\ UNCHANGED <<cache, mode, touched, evlog, tasks, reenter>>

\* c.RLock() returns: the goroutine reads the inner lists for its Contains,
\* Peek, GetOldest, Keys or Len
RLock(p) ==
    /\ callers[p].pc = "RLock"
    /\ RLockFree(mu)
    /\ callers' = [callers EXCEPT ![p].pc = "read"]
    /\ mu' = [mu EXCEPT !.r = @ + 1]
    /\ UNCHANGED <<cache, mode, touched, evlog, tasks, reenter>>

\* the read-only method returns and the deferred c.RUnlock() runs; a call
\* made from inside a callback returns into the callback, which returns
RUnlock(p) ==
    /\ callers[p].pc = "read"
    /\ callers' = [callers EXCEPT ![p] =
          IF callers[p].ev = << >> THEN Outside("returned")
          ELSE [callers[p] EXCEPT !.pc = "callback", !.ev = Tail(@)]]
    /\ mu' = [mu EXCEPT !.r = @ - 1]
    /\ UNCHANGED <<cache, mode, touched, evlog, tasks, reenter>>

\* one task becomes another, or ends
Became(t, pc) == (tasks (-) SetToBag({t})) (+) SetToBag({[t EXCEPT !.pc = pc]})
Ended(t) == tasks (-) SetToBag({t})

\* a started callback runs: it returns, or it calls c.Len() or c.Get(key)
TaskRun(t) ==
    /\ t.pc = "go"
    /\ tasks' = IF reenter = "none" THEN Ended(t)
                ELSE Became(t, IF reenter = "Len" THEN "RLock" ELSE "Lock")
    /\ UNCHANGED <<cache, mode, touched, evlog, callers, mu, reenter>>

\* c.RLock() returns in the callback's c.Len()
TaskRLock(t) ==
    /\ t.pc = "RLock"
    /\ RLockFree(mu)
    /\ tasks' = Became(t, "read")
    /\ mu' = [mu EXCEPT !.r = @ + 1]
    /\ UNCHANGED <<cache, mode, touched, evlog, callers, reenter>>

\* c.Len() returns, and the callback with it
TaskRUnlock(t) ==
    /\ t.pc = "read"
    /\ tasks' = Ended(t)
    /\ mu' = [mu EXCEPT !.r = @ - 1]
    /\ UNCHANGED <<cache, mode, touched, evlog, callers, reenter>>

\* c.Lock() returns in the callback's c.Get(key)
TaskLock(t) ==
    /\ t.pc = "Lock"
    /\ LockFree(mu)
    /\ tasks' = Became(t, "write")
    /\ mu' = [mu EXCEPT !.w = TRUE]
    /\ UNCHANGED <<cache, mode, touched, evlog, callers, reenter>>

\* c.Get(key) makes its writes and returns, and the callback with it
TaskUnlock(t) ==
    /\ t.pc = "write"
    /\ \E s \in GetCall(cache, t.key) :
          /\ cache' = s.next
          /\ Recorded("Get", t.key, s.next, s.ev)
          /\ tasks' = Ended(t) (+) Started(s.ev)
    /\ mu' = [mu EXCEPT !.w = FALSE]
    /\ UNCHANGED <<callers, reenter>>

\* a step of the calling goroutine p
Caller(p) ==
    \/ CallMutating(p) \/ CallReadOnly(p)
    \/ Lock(p) \/ Write(p) \/ Callback(p)
    \/ RLock(p) \/ RUnlock(p)

\* a step of the started callback t
Task(t) ==
    \/ TaskRun(t) \/ TaskRLock(t) \/ TaskRUnlock(t)
    \/ TaskLock(t) \/ TaskUnlock(t)

NextConcurrent ==
    \/ \E p \in Procs : Caller(p)
    \/ \E t \in BagToSet(tasks) : Task(t)

Concurrent == InitConcurrent /\ [][NextConcurrent]_vars

\* some goroutine has a step to take, ENABLED <<NextConcurrent>>_vars written
\* out: it is not inside c.Lock() or c.RLock(), or the mutex lets it through
Runnable ==
    \/ \E p \in Procs :
          \/ callers[p].pc \in {"start", "write", "callback", "read"}
          \/ callers[p].pc = "Lock" /\ LockFree(mu)
          \/ callers[p].pc = "RLock" /\ RLockFree(mu)
    \/ \E t \in BagToSet(tasks) :
          \/ t.pc \in {"go", "write", "read"}
          \/ t.pc = "Lock" /\ LockFree(mu)
          \/ t.pc = "RLock" /\ RLockFree(mu)

\* the Go scheduler runs a goroutine whenever one can run: the goroutines do
\* not all stand still while one of them has a step to take. This is weak
\* fairness of NextConcurrent, with Runnable for its ENABLED: every step of
\* Concurrent that changes vars is a step of NextConcurrent
FairConcurrent ==
    /\ Concurrent
    /\ ([]<>(~Runnable) \/ []<><<TRUE>>_vars)

\* the cache was built with WithOnEvictedAsync
AsyncMode(c) ==
    CASE c.kind = "Lru" -> c.lru.async
      [] c.kind = "2Q"  -> c.recent.async
      [] c.kind = "ARC" -> c.t1.async

\* p is inside a callback that has called the cache and waits for the lock
Reentered(p) == callers[p].pc \in {"Lock", "RLock"} /\ callers[p].ev # << >>

\* p is inside a callback called inline
InCallback(p) ==
    \/ callers[p].pc = "callback"
    \/ (callers[p].ev # << >> /\ callers[p].pc # "write")

\* the goroutines at work on the inner lists under c.Lock() and c.RLock()
WritingCallers == {p \in Procs : callers[p].pc = "write" \/ InCallback(p)}
ReadingCallers == {p \in Procs : callers[p].pc = "read"}
WritingTasks == BagCardinality([t \in {u \in BagToSet(tasks) : u.pc = "write"} |-> tasks[t]])
ReadingTasks == BagCardinality([t \in {u \in BagToSet(tasks) : u.pc = "read"} |-> tasks[t]])
Writers == Cardinality(WritingCallers) + WritingTasks
Readers == Cardinality(ReadingCallers \ WritingCallers) + ReadingTasks

AllReturned == \A p \in Procs : callers[p].pc = "returned"

(***************************************************************************)
(* C13. Cache of capacity c, goroutines that each call Add once, with      *)
(* pairwise distinct keys (mode = "adds": N = Len(touched) of them have    *)
(* made their Add). Between whole operations Len() is min(N, c): no Add is *)
(* lost; whatever a reader holding the read lock sees has at most c        *)
(* entries; the callback has been invoked max(0, N - c) times; and, the    *)
(* scheduler being fair, every call returns.                               *)
(***************************************************************************)
ConcurrentAddsSafe ==
    (cache.kind = "Lru" /\ mode = "adds") =>
        LET c == cache.lru.maxEntries
            N == Len(touched)
        IN  /\ WritingCallers = {} =>
                  /\ unsafeCache_Len(cache.lru) = Min(N, c)
                  /\ cache.lru.bucket = SeqToSet(LastN(touched, Min(N, c)))
            /\ Readers > 0 => unsafeCache_Len(cache.lru) <= c
            /\ cache.lru.onEvicted => Len(evlog) = Max(0, N - c)
            /\ Writers <= 1

ConcurrentAddsAllLand ==
    /\ []ConcurrentAddsSafe
    /\ (cache.kind = "Lru" /\ (AsyncMode(cache) \/ reenter = "none"))
          => <>AllReturned

\* capacity 1: the three goroutines have added three keys and returned, two
\* callbacks were started, one entry is left
ConcurrentAddsAllLandWitness ==
    /\ cache.kind = "Lru"
    /\ AsyncMode(cache)
    /\ mode = "adds"
    /\ cache.lru.maxEntries = 1
    /\ Len(touched) = NumProcs
    /\ AllReturned
    /\ unsafeCache_Len(cache.lru) = 1
    /\ Len(evlog) = NumProcs - 1

(***************************************************************************)
(* C14. While a goroutine is at work on the inner lists under c.Lock()     *)
(* (Add, Get, Remove, RemoveOldest, Resize, Clear) no other goroutine is   *)
(* at work on them; only holders of c.RLock() (Contains, Peek, GetOldest,  *)
(* Keys, Len) are there together. So a reader never sees the inner lists   *)
(* between the two writes of a method: a key that is resident before and   *)
(* after an Add or Get is resident in what the reader sees, and the Len()  *)
(* it sees is that of a state between two whole operations.                *)
(***************************************************************************)
ReadersExcludeWriters ==
    /\ Writers <= 1
    /\ Writers = 1 => Readers = 0
    /\ mu.w <=> Writers = 1
    /\ mu.r = Readers
    /\ \A p \in Procs : callers[p].pc = "write" =>
          /\ ReadingTasks = 0
          /\ \A q \in Procs \ {p} :
                callers[q].pc \notin {"write", "callback", "read"}

\* a Get is promoting key 1 of a TwoQueueCache: the key has left recent and
\* is not yet in frequent, and a goroutine that wants to read waits in
\* c.RLock()
ReadersExcludeWritersWitness ==
    /\ cache.kind = "2Q"
    /\ \E p, q \in Procs :
          /\ callers[p].pc = "write"
          /\ callers[p].name = "Get"
          /\ callers[p].key = 1
          /\ 1 \notin Resident(cache)
          /\ 1 \in Resident(callers[p].next[1])
          /\ callers[q].pc = "RLock"
          /\ callers[q].ev = << >>

(***************************************************************************)
(* C15. A cache built with WithOnEvicted: no goroutine is started for a    *)
(* callback; a callback runs while its caller holds c.Lock(), so at most   *)
(* one caller is inside a callback and every other goroutine is outside    *)
(* the cache or waits in c.Lock() / c.RLock(); while a caller is inside a  *)
(* callback the inner lists do not change and no other goroutine moves     *)
(* except to start waiting; the callbacks of a call run one after the      *)
(* other, and the call returns after the last of them. A callback that     *)
(* calls the same cache waits for the lock forever: the lock is never      *)
(* released again and its caller never returns.                            *)
(***************************************************************************)
SyncCallbackState ==
    ~AsyncMode(cache) =>
        /\ tasks = EmptyBag
        /\ Cardinality({p \in Procs : InCallback(p)}) <= 1
        /\ \A p \in Procs : InCallback(p) =>
              /\ mu.w /\ mu.r = 0
              /\ \A q \in Procs \ {p} :
                    /\ callers[q].pc \in {"start", "Lock", "RLock", "returned"}
                    /\ callers[q].ev = << >>

SyncCallbackStep ==
    ~AsyncMode(cache) =>
        \A p \in Procs :
            /\ InCallback(p) =>
                  /\ cache' = cache
                  /\ \A q \in Procs \ {p} :
                        callers'[q] # callers[q] => callers[q].pc = "start"
                  /\ \/ callers'[p].ev = callers[p].ev
                     \/ callers'[p].ev = Tail(callers[p].ev) /\ Len(callers[p].ev) > 1
                     \/ callers'[p].pc = "returned" /\ Len(callers[p].ev) = 1
            /\ (callers[p].pc = "write" /\ callers'[p].pc = "returned")
                  => \A i \in 1..Len(callers[p].ev) : callers[p].ev[i].go
            /\ Reentered(p) =>
                  /\ Reentered(p)'
                  /\ mu' = mu

SyncCallbackHoldsLock == []SyncCallbackState /\ [][SyncCallbackStep]_vars

\* the callback of one caller has called the cache and waits for the lock
\* that its caller holds, another goroutine waits for the same lock, the
\* third has returned: nothing can move
SyncCallbackHoldsLockWitness ==
    /\ ~AsyncMode(cache)
    /\ \E p \in Procs :
          /\ Reentered(p)
          /\ \E q \in Procs \ {p} : callers[q].pc \in {"Lock", "RLock"}
          /\ \A q \in Procs \ {p} : callers[q].pc \in {"Lock", "RLock", "returned"}
    /\ ~Runnable

(***************************************************************************)
(* C16. A cache built with WithOnEvictedAsync: no caller is ever inside a  *)
(* callback; the step that ends a mutating method starts one goroutine for *)
(* each callback of the method (on a Cache: one for each key that leaves   *)
(* the cache), returns and releases the lock, whatever the goroutines      *)
(* started before are doing. The scheduler being fair, every started       *)
(* callback runs and ends, those that call c.Len() or c.Get(key) of the    *)
(* same cache included, and every call returns: in the end nothing is left *)
(* to run and the lock is free.                                            *)
(***************************************************************************)
AsyncCallbackState ==
    AsyncMode(cache) =>
        \A p \in Procs :
            /\ ~InCallback(p)
            /\ ~Reentered(p)

AsyncCallbackStep ==
    AsyncMode(cache) =>
        \A p \in Procs :
            (callers[p].pc = "write" /\ callers'[p] # callers[p]) =>
                /\ callers'[p].pc = "returned"
                /\ ~mu'.w
                /\ BagCardinality(tasks') =
                      BagCardinality(tasks) + Len(callers[p].ev)
                /\ cache.kind = "Lru" =>
                      Len(callers[p].ev) =
                          Cardinality(cache.lru.bucket \ cache'.lru.bucket)

AllDone == AllReturned /\ tasks = EmptyBag /\ mu = Unlocked

AsyncCallbacksDetached ==
    /\ []AsyncCallbackState
    /\ [][AsyncCallbackStep]_vars
    /\ AsyncMode(cache) =>
          /\ (tasks # EmptyBag) ~> (tasks = EmptyBag)
          /\ <>[]AllDone

\* every caller has returned while two callbacks are in flight: one is
\* inside its c.Get(key) and holds the lock, the other waits in c.Lock()
AsyncCallbacksDetachedWitness ==
    /\ AsyncMode(cache)
    /\ AllReturned
    /\ \E t, u \in BagToSet(tasks) : t.pc = "write" /\ u.pc = "Lock"

(***************************************************************************)
(* C21. ARCCache: p is written by Add alone, and by Add only on a hit in   *)
(* b1 or b2. Get, Peek, Remove and Clear leave p as it is in every state,  *)
(* and so does an Add whose key is in t1 or t2 or in none of the four      *)
(* lists (Contains, Keys and Len change nothing at all). After Clear the   *)
(* four lists are empty and p is what it was.                              *)
(***************************************************************************)
OnlyGhostHitsChangeP ==
    cache.kind = "ARC" =>
        \A s \in ARCCalls(cache) :
            /\ s.name # "Add" => s.r.c.p = cache.p
            /\ (s.name = "Add" /\ s.key \notin cache.b1.bucket \cup cache.b2.bucket)
                  => s.r.c.p = cache.p
            /\ s.name = "Clear" =>
                  /\ s.r.c.t1.bucket = {} /\ s.r.c.t2.bucket = {}
                  /\ s.r.c.b1.bucket = {} /\ s.r.c.b2.bucket = {}
                  /\ s.r.c.maxEntries = cache.maxEntries

\* a cache that has learned p > 0 and was then cleared
OnlyGhostHitsChangePWitness ==
    /\ cache.kind = "ARC"
    /\ cache.p > 0
    /\ cache.t1.bucket = {} /\ cache.t2.bucket = {}
    /\ cache.b1.bucket = {} /\ cache.b2.bucket = {}

(***************************************************************************)
(* C22. TwoQueueCache, Add of a key that is in neither frequent nor        *)
(* recent. With |recent| + |frequent| < maxEntries no resident key leaves. *)
(* Otherwise exactly one does: the oldest of recent, whose key is in the   *)
(* ghost set afterwards, if |recent| > 0 and (|recent| > recentEntries, or *)
(* |recent| = recentEntries and the key added is not in the ghost set);    *)
(* else the oldest of frequent, whose key is not in the ghost set          *)
(* afterwards.                                                             *)
(***************************************************************************)
TwoQueueVictim ==
    cache.kind = "2Q" =>
        \A k \in KeySet \ Resident(cache), v \in ValSet :
            LET after     == TwoQueueCache_Add(cache, k, v).c
                gone      == Resident(cache) \ Resident(after)
                recentLen == unsafeCache_Len(cache.recent)
                freqLen   == unsafeCache_Len(cache.frequent)
                ghostHit  == k \in cache.recentEvict.bucket
            IN  IF recentLen + freqLen < cache.maxEntries
                THEN gone = {}
                ELSE IF recentLen > 0 /\ (recentLen > cache.recentEntries
                           \/ (recentLen = cache.recentEntries /\ ~ghostHit))
                THEN /\ gone = {list_Back(cache.recent.entries).key}
                     /\ gone \subseteq after.recentEvict.bucket
                ELSE /\ cache.frequent.entries # << >>
                     /\ gone = {list_Back(cache.frequent.entries).key}
                     /\ gone \cap after.recentEvict.bucket = {}

\* the ghost list l has key as its newest entry, with the zero value
NewestGhost(l, key) ==
    l.entries # << >> /\ l.entries[1] = [key |-> key, value |-> Zero]

(***************************************************************************)
(* C23. ARCCache, Add of a key that is in neither t1 nor t2, with          *)
(* |t1| + |t2| >= maxEntries. With p the value that the Add leaves (the    *)
(* one it has set if the key was in b1 or b2): if |t1| > 0 and (|t1| > p,  *)
(* or |t1| = p and the key was in b2), the oldest entry of t1 is no longer *)
(* resident after the Add and replace has made its key, with the zero      *)
(* value, the newest of b1; otherwise the same holds of the oldest entry   *)
(* of t2 and of b2. On a hit in b1 or b2 the victim's key is still in its  *)
(* ghost list when the Add returns.                                        *)
(***************************************************************************)
ARCVictim ==
    cache.kind = "ARC" =>
        \A k \in KeySet \ Resident(cache), v \in ValSet :
            LET after   == ARCCache_Add(cache, k, v).c
                t1Len   == unsafeCache_Len(cache.t1)
                b2Hit   == k \in cache.b2.bucket
                ghost   == k \in cache.b1.bucket \cup cache.b2.bucket
                placed  == ARCCache_replace([cache EXCEPT !.p = after.p], b2Hit).c
            IN  ARCCache_Len(cache) >= cache.maxEntries =>
                    IF t1Len > 0 /\ (t1Len > after.p \/ (t1Len = after.p /\ b2Hit))
                    THEN LET j == list_Back(cache.t1.entries).key
                         IN  /\ j \notin Resident(after)
                             /\ NewestGhost(placed.b1, j)
                             /\ ghost => j \in after.b1.bucket
                    ELSE /\ cache.t2.entries # << >>
                         /\ LET j == list_Back(cache.t2.entries).key
                             IN  /\ j \notin Resident(after)
                                 /\ NewestGhost(placed.b2, j)
                                 /\ ghost => j \in after.b2.bucket

(***************************************************************************)
(* One ARCCache of capacity ARCSize, called with NumARCKeys keys: the      *)
(* ghost lists come to hold unequal numbers of keys, which takes twice as  *)
(* many keys as the capacity.                                              *)
(***************************************************************************)
ARCKeySet == 1..NumARCKeys

InitARC ==
    /\ cache = NewARC(ARCSize, "none")
    /\ mode = "adds"
    /\ touched = << >>
    /\ evlog = << >>
    /\ callers = [p \in Procs |-> Outside("start")]
    /\ mu = Unlocked
    /\ tasks = EmptyBag
    /\ reenter = "none"

ARCAdd ==
    /\ Alone
    /\ \E key \in ARCKeySet : cache' = ARCCache_Add(cache, key, Zero).c
    /\ Keep

ARCGet ==
    /\ Alone
    /\ \E key \in ARCKeySet : cache' = ARCCache_Get(cache, key).c
    /\ Keep

NextARC == ARCAdd \/ ARCGet

SpecARC == InitARC /\ [][NextARC]_vars

(***************************************************************************)
(* C24. ARCCache, with |b1| and |b2| as they are before the Add. Add(k, v) *)
(* with k in b1 sets p to min(maxEntries, p + max(1, |b2| div |b1|));      *)
(* with k in b2 it sets p to max(0, p - max(1, |b1| div |b2|)). The        *)
(* divisor is the length of the list that holds k, so it is at least 1.    *)
(* In both cases k is afterwards the newest entry of t2, with value v, and *)
(* in neither ghost list nor in t1.                                        *)
(***************************************************************************)
GhostHitAdjustsP ==
    cache.kind = "ARC" =>
        LET b1Len == unsafeCache_Len(cache.b1)
            b2Len == unsafeCache_Len(cache.b2)
            landed(c2, k, v) ==
                /\ c2.t2.entries # << >>
                /\ c2.t2.entries[1] = [key |-> k, value |-> v]
                /\ k \notin c2.t1.bucket \cup c2.b1.bucket \cup c2.b2.bucket
        IN  /\ \A k \in cache.b1.bucket, v \in ValSet :
                  /\ b1Len >= 1
                  /\ LET after == ARCCache_Add(cache, k, v).c
                     IN  /\ after.p = Min(cache.maxEntries,
                                          cache.p + Max(1, b2Len \div b1Len))
                         /\ landed(after, k, v)
            /\ \A k \in cache.b2.bucket, v \in ValSet :
                  /\ b2Len >= 1
                  /\ LET after == ARCCache_Add(cache, k, v).c
                     IN  /\ after.p = Max(0, cache.p - Max(1, b1Len \div b2Len))
                         /\ landed(after, k, v)

\* b2 holds twice as many keys as b1 and p can still grow by 2
GhostHitAdjustsPWitness ==
    /\ cache.kind = "ARC"
    /\ cache.b1.bucket # {}
    /\ unsafeCache_Len(cache.b2) >= 2 * unsafeCache_Len(cache.b1)
    /\ cache.p + 2 <= cache.maxEntries

(***************************************************************************)
(* C25. ARCCache: whenever Add(k, v) makes another key j stop being        *)
(* resident, then right after that Add j is in b1 if it was in t1 and in   *)
(* b2 if it was in t2: no key leaves t1 or t2 without its ghost list       *)
(* holding it.                                                             *)
(***************************************************************************)
EvictedKeysAreGhosts ==
    cache.kind = "ARC" =>
        \A k \in KeySet, v \in ValSet :
            LET after == ARCCache_Add(cache, k, v).c
            IN  \A j \in (Resident(cache) \ Resident(after)) \ {k} :
                    /\ j \in cache.t1.bucket => j \in after.b1.bucket
                    /\ j \in cache.t2.bucket => j \in after.b2.bucket

====
